---------------------------- MODULE Spec2Model ----------------------------
(***************************************************************************)
(* packlink: a local tarball cache for pnpm packages (src/index.ts).       *)
(*                                                                         *)
(* Strings of the program are sequences of one-character strings, so that  *)
(* startsWith, endsWith, slice, lastIndexOf, the version regular           *)
(* expression, Number() and parseInt() are computed character by character *)
(* as the code computes them.                                              *)
(***************************************************************************)
EXTENDS Integers, Sequences, FiniteSets, TLC

VARIABLES
    argv,       \* the command line: [command, packageName, watch]
    pc,         \* the position of the process in its code
    ret,        \* where the running publish() or add() returns to
    exitCode,   \* the exit status of the process, -1 while it runs
    active,     \* number of publish() / add() calls that have not returned
    cache,      \* the files of cacheDirectory: a set of file names
    now,        \* the wall clock read by Date.now(), in milliseconds
    pkg,        \* the producer's package.json: [ok, name, version]
    runs,       \* number of times the command has been started
    packageJson, \* publish(): the manifest it has read (line 153)
    ptodo,      \* publish(): existingTarballs not yet removed
    pbefore,    \* history: the cache when the running publish() was called
    plast,      \* history: the last successful publish, [n, name, version, stamp]
    pprev,      \* history: the successful publish before plast
    files,      \* add(): the directory listing after the filter of line 240
    latest,     \* add(): the selected tarball (line 285)
    platform,   \* process.platform of the consumer
    consumer,   \* the consumer's package.json: [ok, deps]
    installs,   \* history: the locators handed to "pnpm add"
    writes,     \* history: the writeFileSync calls on the consumer manifest
    watching,   \* whether fs.watch has registered the callback
    queue,      \* the change events not yet delivered to the callback
    timers,     \* the pending timeouts: a set of [id, deadline]
    debounceTimeout, \* the variable of that name: the id of the last timeout, 0 at first
    arrivals,   \* history: number of change events queued for the watcher so far
    lastArrival, \* history: the time the last accepted event arrived, -1 at first
    bursts,     \* history: number of bursts of events so far
    fires,      \* history: number of debounced executions of the governed operation
    call,       \* a call of one of the functions of the program: its arguments
    result      \* what the call returned, <<>> before the call

vars == <<argv, pc, ret, exitCode, active, cache, now, pkg, runs, packageJson,
          ptodo, pbefore, plast, pprev, files, latest, platform, consumer, installs, writes, watching,
          queue, timers, debounceTimeout, arrivals, lastArrival, bursts, fires,
          call, result>>

procVars == <<pc, ret, exitCode, active>>
pubVars == <<pkg, runs, packageJson, ptodo, pbefore, plast, pprev>>
addVars == <<files, latest, platform, consumer, installs, writes>>
libVars == <<call, result>>
watchVars == <<watching, queue, timers, debounceTimeout, arrivals, lastArrival,
               bursts, fires>>

-----------------------------------------------------------------------------
(* Characters *)

DigitChars == <<"0", "1", "2", "3", "4", "5", "6", "7", "8", "9">>
LowerChars == <<"a", "b", "c", "d", "e", "f", "g", "h", "i", "j", "k", "l", "m",
                "n", "o", "p", "q", "r", "s", "t", "u", "v", "w", "x", "y", "z">>
UpperChars == <<"A", "B", "C", "D", "E", "F", "G", "H", "I", "J", "K", "L", "M",
                "N", "O", "P", "Q", "R", "S", "T", "U", "V", "W", "X", "Y", "Z">>

Range(s) == {s[i] : i \in 1..Len(s)}
IndexIn(s, c) == CHOOSE i \in 1..Len(s) : s[i] = c

IsDigit(c) == c \in Range(DigitChars)
IsLower(c) == c \in Range(LowerChars)
IsUpper(c) == c \in Range(UpperChars)
IsSpace(c) == c = " "
DigitVal(c) == IndexIn(DigitChars, c) - 1

Min(a, b) == IF a < b THEN a ELSE b
Max(a, b) == IF a > b THEN a ELSE b

-----------------------------------------------------------------------------
(* String.prototype methods, on sequences of characters (0-based indexes   *)
(* as in the source, converted to SubSeq's 1-based ones).                  *)

\* s.startsWith(p)
StartsWith(s, p) == Len(p) <= Len(s) /\ SubSeq(s, 1, Len(p)) = p

\* s.endsWith(p)
EndsWith(s, p) ==
    Len(p) <= Len(s) /\ SubSeq(s, Len(s) - Len(p) + 1, Len(s)) = p

\* s.slice(from, to): a negative index counts from the end
SliceIdx(s, i) == IF i < 0 THEN Max(Len(s) + i, 0) ELSE Min(i, Len(s))
Slice(s, from, to) == SubSeq(s, SliceIdx(s, from) + 1, SliceIdx(s, to))
SliceFrom(s, from) == Slice(s, from, Len(s))

\* s.substring(from, to): indexes are clamped and swapped when from > to
SubstringIdx(s, i) == Max(0, Min(i, Len(s)))
Substring(s, from, to) ==
    LET a == SubstringIdx(s, from)
        b == SubstringIdx(s, to)
    IN  SubSeq(s, Min(a, b) + 1, Max(a, b))
SubstringFrom(s, from) == Substring(s, from, Len(s))

\* s.lastIndexOf(c), -1 when c does not occur
LastIndexOf(s, c) ==
    IF \E i \in 1..Len(s) : s[i] = c
    THEN (CHOOSE i \in 1..Len(s) :
            s[i] = c /\ \A j \in (i + 1)..Len(s) : s[j] # c) - 1
    ELSE -1

\* s.trim()
RECURSIVE TrimStart(_)
TrimStart(s) == IF s # <<>> /\ IsSpace(Head(s)) THEN TrimStart(Tail(s)) ELSE s
RECURSIVE TrimEnd(_)
TrimEnd(s) ==
    IF s # <<>> /\ IsSpace(s[Len(s)]) THEN TrimEnd(SubSeq(s, 1, Len(s) - 1)) ELSE s
Trim(s) == TrimEnd(TrimStart(s))

\* s.split(c)
RECURSIVE Split(_, _)
Split(s, c) ==
    IF \E i \in 1..Len(s) : s[i] = c
    THEN LET i == CHOOSE k \in 1..Len(s) : s[k] = c /\ \A j \in 1..(k - 1) : s[j] # c
         IN  <<SubSeq(s, 1, i - 1)>> \o Split(SubSeq(s, i + 1, Len(s)), c)
    ELSE <<s>>

\* s.replace(/\//g, '-')
ReplaceAll(s, c, d) == [i \in 1..Len(s) |-> IF s[i] = c THEN d ELSE s[i]]

\* the decimal digits of a non-negative integer, as a template literal prints it
RECURSIVE ToDigits(_)
ToDigits(n) ==
    IF n < 10 THEN <<DigitChars[n + 1]>>
    ELSE ToDigits(n \div 10) \o <<DigitChars[(n % 10) + 1]>>

-----------------------------------------------------------------------------
(* JavaScript numbers.  A number is NaN, an infinity or a rational num/den *)
(* (den > 0): the values Number() and parseInt() can return on the text of *)
(* a file name.                                                            *)

JsNaN == [kind |-> "nan", num |-> 0, den |-> 1]
JsInt(n) == [kind |-> "fin", num |-> n, den |-> 1]
JsInf(sign) == [kind |-> "inf", num |-> sign, den |-> 1]
JsIsNaN(x) == x.kind = "nan"

RECURSIVE Pow(_, _)
Pow(b, n) == IF n <= 0 THEN 1 ELSE b * Pow(b, n - 1)

\* a === b on numbers: NaN equals nothing
JsNumEq(a, b) ==
    /\ a.kind # "nan"
    /\ b.kind = a.kind
    /\ a.num * b.den = b.num * a.den

\* the sign of a - b for numbers that are not NaN, and the difference itself
\* when both are integers (callers read only the sign and the test against 0)
JsNumSub(a, b) ==
    IF a.kind = "inf" \/ b.kind = "inf"
    THEN IF a.kind = "inf" /\ b.kind = "inf"
         THEN a.num - b.num      \* same sign gives NaN in JS; callers test === first
         ELSE IF a.kind = "inf" THEN a.num ELSE 0 - b.num
    ELSE IF a.den = 1 /\ b.den = 1 THEN a.num - b.num
    ELSE LET d == a.num * b.den - b.num * a.den
         IN  IF d < 0 THEN -1 ELSE IF d > 0 THEN 1 ELSE 0

HexVal(c) ==
    IF IsDigit(c) THEN DigitVal(c)
    ELSE IF IsLower(c) THEN IndexIn(LowerChars, c) + 9
    ELSE IF IsUpper(c) THEN IndexIn(UpperChars, c) + 9
    ELSE 99
IsDigitOfBase(c, base) == HexVal(c) < base

AllDigitsOfBase(s, base) ==
    s # <<>> /\ \A i \in 1..Len(s) : IsDigitOfBase(s[i], base)

\* the value of a non-empty run of digits in a base
RECURSIVE ValueInBase(_, _)
ValueInBase(s, base) ==
    IF s = <<>> THEN 0
    ELSE ValueInBase(SubSeq(s, 1, Len(s) - 1), base) * base + HexVal(s[Len(s)])

\* the length of the longest prefix of s made of decimal digits
RECURSIVE DigitRun(_)
DigitRun(s) == IF s # <<>> /\ IsDigit(Head(s)) THEN 1 + DigitRun(Tail(s)) ELSE 0

\* the exponent part of a decimal literal, after e|E: [+|-] digits
ExponentOf(mant, negative, digs) ==
    IF ~AllDigitsOfBase(digs, 10) THEN JsNaN
    ELSE IF negative
         THEN [kind |-> "fin", num |-> mant, den |-> Pow(10, ValueInBase(digs, 10))]
         ELSE JsInt(mant * Pow(10, ValueInBase(digs, 10)))

SignedExponent(mant, r) ==
    IF r # <<>> /\ r[1] \in {"-", "+"} THEN ExponentOf(mant, r[1] = "-", Tail(r))
    ELSE ExponentOf(mant, FALSE, r)

DecimalOf(mantDigits, rest) ==
    IF mantDigits = <<>> THEN JsNaN
    ELSE IF rest = <<>> THEN JsInt(ValueInBase(mantDigits, 10))
    ELSE IF rest[1] \notin {"e", "E"} THEN JsNaN
    ELSE SignedExponent(ValueInBase(mantDigits, 10), Tail(rest))

\* StrUnsignedDecimalLiteral without "." (a segment never holds one):
\* digits, then an optional exponent e|E [+|-] digits
UnsignedDecimal(s) ==
    DecimalOf(SubSeq(s, 1, DigitRun(s)), SubSeq(s, DigitRun(s) + 1, Len(s)))

JsNeg(x) == IF x.kind = "nan" THEN x ELSE [x EXCEPT !.num = 0 - x.num]

InfinityText == <<"I", "n", "f", "i", "n", "i", "t", "y">>

\* a literal with a base prefix: 0x, 0o, 0b and the digits of that base
PrefixedOf(digs, base) ==
    IF AllDigitsOfBase(digs, base) THEN JsInt(ValueInBase(digs, base)) ELSE JsNaN

\* StrDecimalLiteral: an optional sign, then Infinity or an unsigned literal
SignedOf(negative, body) ==
    IF body = InfinityText THEN JsInf(IF negative THEN -1 ELSE 1)
    ELSE IF negative THEN JsNeg(UnsignedDecimal(body))
    ELSE UnsignedDecimal(body)

\* StringToNumber on a trimmed text: "" is 0; a base prefix takes no sign
NumberOfTrimmed(s) ==
    IF s = <<>> THEN JsInt(0)
    ELSE IF Len(s) > 2 /\ s[1] = "0" /\ s[2] \in {"x", "X"} THEN PrefixedOf(SliceFrom(s, 2), 16)
    ELSE IF Len(s) > 2 /\ s[1] = "0" /\ s[2] \in {"o", "O"} THEN PrefixedOf(SliceFrom(s, 2), 8)
    ELSE IF Len(s) > 2 /\ s[1] = "0" /\ s[2] \in {"b", "B"} THEN PrefixedOf(SliceFrom(s, 2), 2)
    ELSE IF s[1] \in {"-", "+"} THEN SignedOf(s[1] = "-", Tail(s))
    ELSE SignedOf(FALSE, s)

\* Number(text)
Number(text) == NumberOfTrimmed(Trim(text))

\* the integer of the longest run of decimal digits that starts body; NaN
\* when there is none
IntegerPrefix(negative, body) ==
    IF DigitRun(body) = 0 THEN JsNaN
    ELSE IF negative THEN JsInt(0 - ValueInBase(SubSeq(body, 1, DigitRun(body)), 10))
    ELSE JsInt(ValueInBase(SubSeq(body, 1, DigitRun(body)), 10))

ParseIntOfTrimmed(s) ==
    IF s # <<>> /\ s[1] \in {"-", "+"} THEN IntegerPrefix(s[1] = "-", Tail(s))
    ELSE IntegerPrefix(FALSE, s)

\* parseInt(text, 10): leading white space, an optional sign, then the
\* longest run of decimal digits
ParseInt(text) == ParseIntOfTrimmed(TrimStart(text))

-----------------------------------------------------------------------------
(* SemVer (src/index.ts 26-112) *)

NoVersion == [ok |-> FALSE, major |-> 0, minor |-> 0, patch |-> 0, prerelease |-> <<>>]

createSemVer(major, minor, patch, prerelease) ==
    [ok |-> TRUE, major |-> major, minor |-> minor, patch |-> patch,
     prerelease |-> prerelease]

\* a prerelease identifier: a number or the segment's own text
NumId(n) == [isNum |-> TRUE, num |-> n, str |-> <<>>]
StrId(s) == [isNum |-> FALSE, num |-> JsNaN, str |-> s]

RECURSIVE SelectNonEmpty(_)
SelectNonEmpty(segs) ==
    IF segs = <<>> THEN <<>>
    ELSE IF Len(Head(segs)) > 0 THEN <<Head(segs)>> \o SelectNonEmpty(Tail(segs))
    ELSE SelectNonEmpty(Tail(segs))

\* Number.isNaN(numeric) ? segment : numeric
IdOf(segment, numeric) == IF JsIsNaN(numeric) THEN StrId(segment) ELSE NumId(numeric)

\* the map callback of parsePrerelease
SegmentToId(segment) == IdOf(segment, Number(segment))

MapSegments(segs) == [i \in 1..Len(segs) |-> SegmentToId(segs[i])]

\* parsePrerelease(input); input = <<>> stands for undefined and for ""
parsePrerelease(input) ==
    IF input = <<>> THEN <<>> ELSE MapSegments(SelectNonEmpty(Split(input, ".")))

\* a default of 1 for the part that is left out
PartNumberOne(part) == IF part = <<>> THEN 1 ELSE Number(part).num

\* Number(part ?? 0); <<>> stands for undefined
PartNumber(part) == IF part = <<>> THEN 0 ELSE Number(part).num

\* normalizeVersionParts(major, minor, patch)
normalizeVersionParts(major, minor, patch) ==
    <<PartNumber(major), PartNumber(minor), PartNumber(patch)>>

\* a character of the class [0-9A-Za-z-.]
IsPrereleaseChar(c) == IsDigit(c) \/ IsLower(c) \/ IsUpper(c) \/ c \in {"-", "."}

\* (?:\.(\d+))? at the head of s: the digits matched, <<>> when the group
\* does not take part, and the text after the group
DotDigits(s) ==
    IF Len(s) >= 2 /\ s[1] = "." /\ IsDigit(s[2])
    THEN SubSeq(s, 2, 1 + DigitRun(Tail(s)))
    ELSE <<>>
AfterDotDigits(s) ==
    IF Len(s) >= 2 /\ s[1] = "." /\ IsDigit(s[2])
    THEN SubSeq(s, 2 + DigitRun(Tail(s)), Len(s))
    ELSE s

\* (?:-([0-9A-Za-z-.]+))?$ on the rest of the text
MatchTail(major, minor, patch, s4) ==
    [ok |-> /\ major # <<>>
            /\ \/ s4 = <<>>
               \/ /\ s4[1] = "-"
                  /\ Len(s4) >= 2
                  /\ \A i \in 2..Len(s4) : IsPrereleaseChar(s4[i]),
     major |-> major, minor |-> minor, patch |-> patch,
     prerelease |-> IF s4 # <<>> /\ s4[1] = "-" THEN Tail(s4) ELSE <<>>]

MatchPatch(major, minor, s3) ==
    MatchTail(major, minor, DotDigits(s3), AfterDotDigits(s3))

MatchMinor(major, s2) == MatchPatch(major, DotDigits(s2), AfterDotDigits(s2))

MatchMajor(s1) ==
    MatchMinor(SubSeq(s1, 1, DigitRun(s1)), SubSeq(s1, DigitRun(s1) + 1, Len(s1)))

\* the match of /^v?(\d+)(?:\.(\d+))?(?:\.(\d+))?(?:-([0-9A-Za-z-.]+))?$/
\* on s: [ok, major, minor, patch, prerelease], the groups as text
MatchVersion(s) == MatchMajor(IF s # <<>> /\ s[1] = "v" THEN Tail(s) ELSE s)

SemVerOfParts(parts, prerelease) == createSemVer(parts[1], parts[2], parts[3], prerelease)

SemVerOfMatch(match) ==
    IF ~match.ok \/ match.major = <<>> THEN NoVersion
    ELSE SemVerOfParts(normalizeVersionParts(match.major, match.minor, match.patch),
                       parsePrerelease(match.prerelease))

\* parseSemVer(input): NoVersion stands for null
parseSemVer(input) == SemVerOfMatch(MatchVersion(Trim(input)))

\* String.prototype.localeCompare on the characters of a prerelease
\* identifier, in the root collation: punctuation, then digits, then letters
\* in alphabetical order whatever their case; on a tie of the whole strings a
\* lower-case letter sorts before its upper-case one.
PrimaryWeight(c) ==
    IF c = "-" THEN 0
    ELSE IF IsDigit(c) THEN 1 + DigitVal(c)
    ELSE IF IsLower(c) THEN 10 + IndexIn(LowerChars, c)
    ELSE IF IsUpper(c) THEN 10 + IndexIn(UpperChars, c)
    ELSE 99
CaseWeight(c) == IF IsUpper(c) THEN 1 ELSE 0

\* lexicographic comparison of two strings by a weight of their characters:
\* the primary weight (level 1) or the case weight (level 3)
Weight(level, c) == IF level = 1 THEN PrimaryWeight(c) ELSE CaseWeight(c)

RECURSIVE CompareBy(_, _, _)
CompareBy(level, a, b) ==
    IF a = <<>> /\ b = <<>> THEN 0
    ELSE IF a = <<>> THEN -1
    ELSE IF b = <<>> THEN 1
    ELSE IF Weight(level, Head(a)) < Weight(level, Head(b)) THEN -1
    ELSE IF Weight(level, Head(a)) > Weight(level, Head(b)) THEN 1
    ELSE CompareBy(level, Tail(a), Tail(b))

FirstNonZero(x, y) == IF x # 0 THEN x ELSE y

localeCompare(a, b) == FirstNonZero(CompareBy(1, a, b), CompareBy(3, a, b))

\* aId === bId on identifiers
IdEq(aId, bId) ==
    /\ aId.isNum = bId.isNum
    /\ IF aId.isNum THEN JsNumEq(aId.num, bId.num) ELSE aId.str = bId.str

\* a comparison that puts the numeric identifiers after the texts
CompareIdsTextFirst(aId, bId) ==
    IF aId.isNum /\ bId.isNum THEN JsNumSub(aId.num, bId.num)
    ELSE IF aId.isNum THEN 1
    ELSE IF bId.isNum THEN -1
    ELSE localeCompare(aId.str, bId.str)

\* one turn of the loop of compareSemVer (lines 103-109), aId # bId
CompareIds(aId, bId) ==
    IF aId.isNum /\ bId.isNum THEN JsNumSub(aId.num, bId.num)
    ELSE IF aId.isNum THEN -1
    ELSE IF bId.isNum THEN 1
    ELSE localeCompare(aId.str, bId.str)

\* the loop of compareSemVer (lines 96-111) from index i (1-based)
RECURSIVE ComparePrerelease(_, _, _)
ComparePrerelease(aPre, bPre, i) ==
    IF i > Max(Len(aPre), Len(bPre)) THEN 0
    ELSE IF i > Len(aPre) THEN -1
    ELSE IF i > Len(bPre) THEN 1
    ELSE IF IdEq(aPre[i], bPre[i]) THEN ComparePrerelease(aPre, bPre, i + 1)
    ELSE CompareIds(aPre[i], bPre[i])

\* compareSemVer(a, b)
compareSemVer(a, b) ==
    IF a.major # b.major THEN a.major - b.major
    ELSE IF a.minor # b.minor THEN a.minor - b.minor
    ELSE IF a.patch # b.patch THEN a.patch - b.patch
    ELSE IF Len(a.prerelease) = 0 /\ Len(b.prerelease) = 0 THEN 0
    ELSE IF Len(a.prerelease) = 0 THEN 1
    ELSE IF Len(b.prerelease) = 0 THEN -1
    ELSE ComparePrerelease(a.prerelease, b.prerelease, 1)

-----------------------------------------------------------------------------
(* Artifact names (src/index.ts 142-147, 180, 197, 240-271) *)

Hyphen == <<"-">>
TgzExt == <<".", "t", "g", "z">>

\* a sanitization that drops the "@" and keeps the slashes
getSafePackageNameKeepSlash(packageName) ==
    IF StartsWith(packageName, <<"@">>)
    THEN SliceFrom(packageName, 1)
    ELSE packageName

\* getSafePackageName (lines 142-147)
getSafePackageName(packageName) ==
    IF StartsWith(packageName, <<"@">>)
    THEN ReplaceAll(SliceFrom(packageName, 1), "/", "-")
    ELSE packageName

\* originalTarballName: the file "pnpm pack" writes (line 180)
originalTarballName(safePackageName, packageVersion) ==
    safePackageName \o Hyphen \o packageVersion \o TgzExt

\* the prefix of the tarballs publish removes (line 190)
existingPrefix(safePackageName, packageVersion) ==
    safePackageName \o Hyphen \o packageVersion \o Hyphen

\* newTarballName (line 197)
newTarballName(safePackageName, packageVersion, timestamp) ==
    safePackageName \o Hyphen \o packageVersion \o Hyphen
        \o ToDigits(timestamp) \o TgzExt

\* the filter of add's readdirSync (line 241) and of watchAdd (347-348)
IsTarballOf(file, safePackageName) ==
    StartsWith(file, safePackageName \o Hyphen) /\ EndsWith(file, TgzExt)

NoTarball == [ok |-> FALSE, file |-> <<>>, version |-> NoVersion, timestamp |-> JsNaN]

\* lines 261-269: null when the version does not parse
TarballOf(file, version, timestampString) ==
    IF ~version.ok THEN NoTarball
    ELSE [ok |-> TRUE, file |-> file, version |-> version,
          timestamp |-> ParseInt(timestampString)]

\* a split that takes a name without hyphen as a version without timestamp
SplitInnerNoHyphenCheck(file, inner, lastHyphenIndex) ==
    IF lastHyphenIndex = -1 THEN TarballOf(file, parseSemVer(inner), <<>>)
    ELSE TarballOf(file, parseSemVer(Substring(inner, 0, lastHyphenIndex)),
                   SubstringFrom(inner, lastHyphenIndex + 1))

\* lines 257-260: null when there is no hyphen, else the split at the last one
SplitInner(file, inner, lastHyphenIndex) ==
    IF lastHyphenIndex = -1 THEN NoTarball
    ELSE TarballOf(file, parseSemVer(Substring(inner, 0, lastHyphenIndex)),
                   SubstringFrom(inner, lastHyphenIndex + 1))

\* a split at the first hyphen
DecodeInnerFirstHyphen(file, inner) ==
    SplitInner(file, inner,
               IF \E i \in 1..Len(inner) : inner[i] = "-"
               THEN (CHOOSE i \in 1..Len(inner) :
                       inner[i] = "-" /\ \A j \in 1..(i - 1) : inner[j] # "-") - 1
               ELSE -1)

\* line 255
DecodeInner(file, inner) == SplitInner(file, inner, LastIndexOf(inner, "-"))

\* the map callback of add (lines 250-270); NoTarball stands for null
decodeTarball(file, safePackageName) ==
    DecodeInner(file, SliceFrom(Slice(file, 0, -4), Len(safePackageName) + 1))

\* .filter(tarball => tarball !== null) on one element
KeepDecoded(t) == IF t.ok THEN <<t>> ELSE <<>>

\* files.map(...).filter(...)
RECURSIVE decodeAll(_, _)
decodeAll(fileList, safePackageName) ==
    IF fileList = <<>> THEN <<>>
    ELSE KeepDecoded(decodeTarball(Head(fileList), safePackageName))
             \o decodeAll(Tail(fileList), safePackageName)

\* a.timestamp - b.timestamp: NaN when either is NaN
timestampDiff(a, b) ==
    IF JsIsNaN(a.timestamp) \/ JsIsNaN(b.timestamp) THEN JsNaN
    ELSE JsInt(a.timestamp.num - b.timestamp.num)

\* if (verDiff !== 0) return verDiff; return a.timestamp - b.timestamp
VersionThenTimestamp(verDiff, a, b) ==
    IF verDiff # 0 THEN JsInt(verDiff) ELSE timestampDiff(a, b)

\* a comparator that reads the timestamps before the versions
tarballComparatorTimeFirst(a, b) ==
    IF JsIsNaN(timestampDiff(a, b)) \/ timestampDiff(a, b).num = 0
    THEN JsInt(compareSemVer(a.version, b.version))
    ELSE timestampDiff(a, b)

\* the comparator handed to tarballs.sort (lines 279-283)
tarballComparator(a, b) ==
    VersionThenTimestamp(compareSemVer(a.version, b.version), a, b)

-----------------------------------------------------------------------------
(* Array.prototype.sort as the Node runtime runs it on an array shorter    *)
(* than 64 elements: one run is counted (and reversed when descending),    *)
(* the rest is inserted by binary search.  A comparator result of NaN is   *)
(* read as 0.                                                              *)

NaNToZero(v) == IF JsIsNaN(v) THEN 0 ELSE v.num

SortCompare(a, b) == NaNToZero(tarballComparator(a, b))

Reverse(s) == [i \in 1..Len(s) |-> s[Len(s) + 1 - i]]

\* whether the run goes on after an element that compares as order to the
\* one before it
RunGoesOn(order, isDescending) == IF isDescending THEN order < 0 ELSE order >= 0

\* the length of the run that starts the array: a[idx] against a[idx - 1]
RECURSIVE RunEnd(_, _, _)
RunEnd(a, idx, isDescending) ==
    IF idx > Len(a) THEN idx - 1
    ELSE IF RunGoesOn(SortCompare(a[idx], a[idx - 1]), isDescending)
         THEN RunEnd(a, idx + 1, isDescending)
         ELSE idx - 1

\* the position (number of elements before it) where pivot goes in a[1..n]
RECURSIVE BinarySearch(_, _, _, _)
BinarySearch(a, pivot, left, right) ==
    IF left >= right THEN left
    ELSE IF SortCompare(pivot, a[left + ((right - left) \div 2) + 1]) < 0
         THEN BinarySearch(a, pivot, left, left + ((right - left) \div 2))
         ELSE BinarySearch(a, pivot, left + ((right - left) \div 2) + 1, right)

\* a with a[start + 1] moved to position left + 1
MovePivot(a, start, left) ==
    SubSeq(a, 1, left) \o <<a[start + 1]>> \o SubSeq(a, left + 1, start)
        \o SubSeq(a, start + 2, Len(a))

\* insert a[start + 1 .. Len(a)] one by one into the sorted a[1..start]
RECURSIVE BinaryInsertionSort(_, _)
BinaryInsertionSort(a, start) ==
    IF start >= Len(a) THEN a
    ELSE BinaryInsertionSort(
             MovePivot(a, start, BinarySearch(a, a[start + 1], 0, start)), start + 1)

\* the array with its first run made ascending
MakeRun(a, runLength, isDescending) ==
    IF isDescending
    THEN Reverse(SubSeq(a, 1, runLength)) \o SubSeq(a, runLength + 1, Len(a))
    ELSE a

SortFromRun(a, runLength, isDescending) ==
    BinaryInsertionSort(MakeRun(a, runLength, isDescending), runLength)

SortRuns(a, isDescending) == SortFromRun(a, RunEnd(a, 3, isDescending), isDescending)

\* tarballs.sort(...)
SortTarballs(a) ==
    IF Len(a) < 2 THEN a ELSE SortRuns(a, SortCompare(a[2], a[1]) < 0)

-----------------------------------------------------------------------------
(* The selection step of add (lines 239-286): from the directory listing   *)
(* to the latest tarball.                                                  *)

\* readdirSync(cacheDirectory).filter(...) on a listing
RECURSIVE filterTarballs(_, _)
filterTarballs(listing, safePackageName) ==
    IF listing = <<>> THEN <<>>
    ELSE (IF IsTarballOf(Head(listing), safePackageName) THEN <<Head(listing)>> ELSE <<>>)
             \o filterTarballs(Tail(listing), safePackageName)

\* tarballs[tarballs.length - 1] after the sort
latestOf(tarballs) == SortTarballs(tarballs)[Len(tarballs)]

\* lines 273-285 on the decoded tarballs
SelectLatest(tarballs) ==
    IF Len(tarballs) = 0 THEN [status |-> "NoValid", latest |-> NoTarball]
    ELSE [status |-> "ok", latest |-> latestOf(tarballs)]

\* lines 244-271 on the filtered listing
ResolveFiles(fileList, safePackageName) ==
    IF Len(fileList) = 0 THEN [status |-> "NoTarball", latest |-> NoTarball]
    ELSE SelectLatest(decodeAll(fileList, safePackageName))

ResolveSafe(listing, safePackageName) ==
    ResolveFiles(filterTarballs(listing, safePackageName), safePackageName)

\* [status, latest]: "NoTarball" (line 244), "NoValid" (line 273) or "ok"
resolveLatest(listing, packageName) ==
    ResolveSafe(listing, getSafePackageName(packageName))

-----------------------------------------------------------------------------
(* The texts of the model: package names, versions, file names *)

Foo == <<"f", "o", "o">>
Bar == <<"b", "a", "r">>
ScopedFoo == <<"@", "s", "/", "f", "o", "o">>
NoText == <<>>      \* undefined, or the empty string

V100 == <<"1", ".", "0", ".", "0">>
V10 == <<"1", ".", "0">>
V120 == <<"1", ".", "2", ".", "0">>
V100beta == <<"1", ".", "0", ".", "0", "-", "b", "e", "t", "a">>

Foo100at100 == newTarballName(Foo, V100, 100)
Foo100at200 == newTarballName(Foo, V100, 200)
Foo120at50 == newTarballName(Foo, V120, 50)
Foo10at100 == newTarballName(Foo, V10, 100)
Foo100betaAt150 == newTarballName(Foo, V100beta, 150)
Foo100Unstamped == originalTarballName(Foo, V100)
Foo100betaUnstamped == originalTarballName(Foo, V100beta)
FooBar100at100 == newTarballName(Foo \o Hyphen \o Bar, V100, 100)
Foo2v100at300 == newTarballName(Foo \o <<"-", "2">>, V100, 300)
Bar100at100 == newTarballName(Bar, V100, 100)
SFoo100at100 == newTarballName(getSafePackageName(ScopedFoo), V100, 100)

\* the files a cache directory may hold when add starts
Universe ==
    {Foo100at100, Foo100at200, Foo120at50, Foo10at100, Foo100betaAt150,
     Foo100Unstamped, Foo100betaUnstamped, FooBar100at100, Foo2v100at300,
     SFoo100at100}

MaxFiles == 3
MaxRuns == 2
MaxEvents == 3

\* a file of the build directory
IndexJs == <<"i", ".", "j", "s">>

\* the tarballs other processes write into the cache while add watches it
WatchUniverse == {Foo100at200, Bar100at100}

\* the orders in which readdirSync may list a directory
RECURSIVE Listings(_)
Listings(dir) ==
    IF dir = {} THEN {<<>>}
    ELSE UNION {{<<f>> \o l : l \in Listings(dir \ {f})} : f \in dir}

-----------------------------------------------------------------------------
(* Locators (src/index.ts 293-299) *)

FileScheme == <<"f", "i", "l", "e", ":">>
\* tarballPath.slice(homeDirectory.length) without the file name:
\* cacheDirectory = resolve(homeDirectory, '.config', 'packlink') (line 127)
CacheUnderHome ==
    <<"/", ".", "c", "o", "n", "f", "i", "g", "/", "p", "a", "c", "k", "l", "i", "n", "k", "/">>
\* relative(process.cwd(), tarballPath) without the file name, for a
\* consumer project in a directory right under the home directory
CacheFromCwd ==
    <<".", ".", "\\", ".", "c", "o", "n", "f", "i", "g", "\\", "p", "a", "c", "k", "l", "i", "n", "k", "\\">>

dependencyPath(plat, file) ==
    IF plat = "win32" THEN FileScheme \o CacheFromCwd \o file
    ELSE FileScheme \o <<"~">> \o CacheUnderHome \o file

-----------------------------------------------------------------------------
(* Process control *)

\* process.exit(code): the watcher and the timeouts die with the process
Exit(code) ==
    /\ pc' = "exited"
    /\ exitCode' = code
    /\ watching' = FALSE
    /\ timers' = {}
    /\ UNCHANGED <<ret, active, queue, debounceTimeout, arrivals, lastArrival,
                   bursts, fires>>

\* publish() or add() returns to its caller: the end of the program for a
\* one-shot command, watchPublish / watchAdd for the first call of a watch
\* command, the event loop for a debounced call
Return ==
    /\ active' = active - 1
    /\ pc' = IF ret = "end" THEN "exited" ELSE ret
    /\ exitCode' = IF ret = "end" THEN 0 ELSE exitCode
    /\ UNCHANGED <<ret, watchVars>>

\* calling publish() or add() from pc, to return to r
Call(entry, r) ==
    /\ pc' = entry
    /\ ret' = r
    /\ active' = active + 1
    /\ UNCHANGED exitCode

-----------------------------------------------------------------------------
(* add (src/index.ts 233-333) *)

\* an entry of "dependencies": the key is there or not (undefined), and
\* the range it declares can be the empty string
NoEntry == [has |-> FALSE, range |-> NoText]
Entry(range) == [has |-> TRUE, range |-> range]

\* consumerPackageJson.dependencies?.[packageName] (line 310)
DepOf(manifest, name) == manifest.deps[name]

\* if (hasDependency): undefined and "" are falsy (line 311)
Truthy(entry) == entry.has /\ entry.range # NoText

\* lines 233-247: the argument check, readdirSync and its filter
AddList ==
    /\ pc = "add"
    /\ IF argv.packageName = NoText
       THEN Exit(1) /\ UNCHANGED files
       ELSE \E listing \in Listings(cache) :
              /\ files' = filterTarballs(listing, getSafePackageName(argv.packageName))
              /\ IF Len(files') = 0
                 THEN Exit(1)
                 ELSE pc' = "add_select" /\ UNCHANGED <<ret, exitCode, active, watchVars>>
    /\ UNCHANGED <<argv, libVars, cache, now, pubVars, latest, platform, consumer, installs, writes>>

\* a selection step without the exit of lines 273-276
AddSelectNoExit ==
    /\ pc = "add_select"
    /\ latest' = ResolveFiles(files, getSafePackageName(argv.packageName)).latest
    /\ pc' = "add_manifest"
    /\ UNCHANGED <<ret, exitCode, active, watchVars>>
    /\ UNCHANGED <<argv, libVars, cache, now, pubVars, files, platform, consumer, installs, writes>>

\* lines 249-291: decode, sort, pick the last, existsSync
AddSelect ==
    /\ pc = "add_select"
    /\ \E tarball \in {ResolveFiles(files, getSafePackageName(argv.packageName)).latest} :
          /\ latest' = tarball
          /\ IF ~tarball.ok \/ tarball.file \notin cache
             THEN Exit(1)
             ELSE pc' = "add_manifest" /\ UNCHANGED <<ret, exitCode, active, watchVars>>
    /\ UNCHANGED <<argv, libVars, cache, now, pubVars, files, platform, consumer, installs, writes>>

\* lines 301-318: read the consumer manifest, drop a stale declaration
AddManifest ==
    /\ pc = "add_manifest"
    /\ IF ~consumer.ok
       THEN Exit(1) /\ UNCHANGED <<consumer, writes>>
       ELSE /\ pc' = "add_install"
            /\ UNCHANGED <<ret, exitCode, active, watchVars>>
            /\ IF Truthy(DepOf(consumer, argv.packageName))
               THEN /\ consumer' = [consumer EXCEPT !.deps[argv.packageName] = NoEntry]
                    /\ writes' = writes + 1
               ELSE UNCHANGED <<consumer, writes>>
    /\ UNCHANGED <<argv, libVars, cache, now, pubVars, files, latest, platform, installs>>

\* lines 320-332: "pnpm add <locator>"; on success the installer records the
\* dependency in the consumer manifest, on failure it exits non-zero
AddInstall ==
    /\ pc = "add_install"
    /\ installs' = Append(installs, dependencyPath(platform, latest.file))
    /\ \/ /\ consumer' = [consumer EXCEPT !.deps[argv.packageName] =
                                               Entry(installs'[Len(installs')])]
          /\ Return
       \/ /\ Exit(1)
          /\ UNCHANGED consumer
    /\ UNCHANGED <<argv, libVars, cache, now, pubVars, files, latest, platform, writes>>

-----------------------------------------------------------------------------
(* Time, in milliseconds *)

DebounceMs == 200   \* the delay of setTimeout in watchPublish and watchAdd
TickMs == 100       \* the step of the clock
StartTime == 300    \* the clock when the command starts
MaxTicks == 8
MaxTime == StartTime + MaxTicks * TickMs

-----------------------------------------------------------------------------
(* publish (src/index.ts 149-211) *)

\* the file names publish derives from the manifest it has read
SafeNameOf(manifest) == getSafePackageName(manifest.name)
OriginalOf(manifest) == originalTarballName(SafeNameOf(manifest), manifest.version)
PrefixOf(manifest) == existingPrefix(SafeNameOf(manifest), manifest.version)
NewNameOf(manifest, timestamp) ==
    newTarballName(SafeNameOf(manifest), manifest.version, timestamp)

\* readdirSync(cacheDirectory).filter(startsWith(prefix)) (lines 189-191):
\* the files of the directory that start with the prefix, in any of the
\* orders readdirSync may list them
existingTarballs(dir, prefix) ==
    Listings({file \in dir : StartsWith(file, prefix)})

\* the time "pnpm pack" may take: it spawns a process, which lasts a
\* millisecond at least
PackDurations == {1, TickMs}

\* lines 150-167: read package.json, check name and version
PubRead ==
    /\ pc = "pub_read"
    /\ packageJson' = pkg
    /\ pbefore' = cache
    /\ IF ~pkg.ok \/ pkg.name = NoText \/ pkg.version = NoText
       THEN Exit(1)
       ELSE pc' = "pub_pack" /\ UNCHANGED <<ret, exitCode, active, watchVars>>
    /\ UNCHANGED <<argv, libVars, cache, now, pkg, runs, ptodo, plast, pprev, addVars>>

\* lines 171-178: execSync("pnpm pack"), a blocking call.  It fails, or it
\* writes the unstamped tarball into the cache, or it ends without error
\* and without a file of the expected name
PubPack ==
    /\ pc = "pub_pack"
    /\ \E d \in PackDurations : now' = now + d
    /\ \/ /\ cache' = cache \cup {OriginalOf(packageJson)}
          /\ pc' = "pub_check"
          /\ UNCHANGED <<ret, exitCode, active, watchVars>>
       \/ /\ UNCHANGED cache
          /\ pc' = "pub_check"
          /\ UNCHANGED <<ret, exitCode, active, watchVars>>
       \/ /\ UNCHANGED cache
          /\ Exit(1)
    /\ UNCHANGED <<argv, libVars, pubVars, addVars>>

\* a test that comes after the removal of the existing tarballs
PubCheckAfterRemove ==
    /\ pc = "pub_check"
    /\ IF OriginalOf(packageJson) \notin cache
       THEN /\ cache' = {file \in cache : ~StartsWith(file, PrefixOf(packageJson))}
            /\ Exit(1)
       ELSE /\ pc' = "pub_list"
            /\ UNCHANGED <<cache, ret, exitCode, active, watchVars>>
    /\ UNCHANGED <<argv, libVars, now, pubVars, addVars>>

\* lines 180-186: existsSync(originalTarballPath)
PubCheck ==
    /\ pc = "pub_check"
    /\ IF OriginalOf(packageJson) \notin cache
       THEN Exit(1)
       ELSE pc' = "pub_list" /\ UNCHANGED <<ret, exitCode, active, watchVars>>
    /\ UNCHANGED <<argv, libVars, cache, now, pubVars, addVars>>

\* a listing step that finds no tarball to remove
PubListNone ==
    /\ pc = "pub_list"
    /\ ptodo' = <<>>
    /\ pc' = "pub_rm"
    /\ UNCHANGED <<ret, exitCode, active, watchVars>>
    /\ UNCHANGED <<argv, libVars, cache, now, pkg, runs, packageJson, pbefore, plast, pprev, addVars>>

\* lines 188-191: existingTarballs
PubList ==
    /\ pc = "pub_list"
    /\ ptodo' \in existingTarballs(cache, PrefixOf(packageJson))
    /\ pc' = "pub_rm"
    /\ UNCHANGED <<ret, exitCode, active, watchVars>>
    /\ UNCHANGED <<argv, libVars, cache, now, pkg, runs, packageJson, pbefore, plast, pprev, addVars>>

\* lines 192-194: one turn of the loop, rmSync of the next existing tarball
PubRemove ==
    /\ pc = "pub_rm"
    /\ ptodo # <<>>
    /\ cache' = cache \ {Head(ptodo)}
    /\ ptodo' = Tail(ptodo)
    /\ UNCHANGED <<argv, libVars, procVars, now, pkg, runs, packageJson, pbefore, plast, pprev,
                   addVars, watchVars>>

\* lines 196-211: Date.now(), renameSync to the stamped name, return
PubRename ==
    /\ pc = "pub_rm"
    /\ ptodo = <<>>
    /\ cache' = (cache \ {OriginalOf(packageJson)}) \cup {NewNameOf(packageJson, now)}
    /\ pprev' = plast
    /\ plast' = [n |-> plast.n + 1, name |-> packageJson.name,
                 version |-> packageJson.version, stamp |-> now]
    /\ Return
    /\ UNCHANGED <<argv, libVars, now, pkg, runs, packageJson, ptodo, pbefore, addVars>>

-----------------------------------------------------------------------------
(* The command line (src/index.ts 365-415) *)

\* a watchAdd that registers its watcher before the first add
CliAddWatchFirst ==
    /\ pc = "cli"
    /\ argv.command = "add"
    /\ IF argv.packageName = NoText
       THEN Exit(1)
       ELSE /\ Call("add", IF argv.watch THEN "watch" ELSE "end")
            /\ watching' = argv.watch
            /\ UNCHANGED <<queue, timers, debounceTimeout, arrivals, lastArrival,
                           bursts, fires>>
    /\ UNCHANGED <<argv, libVars, cache, now, pubVars, addVars>>

\* case 'add': the usage error, then watchAdd or add
CliAdd ==
    /\ pc = "cli"
    /\ argv.command = "add"
    /\ IF argv.packageName = NoText
       THEN Exit(1)
       ELSE /\ Call("add", IF argv.watch THEN "watch" ELSE "end")
            /\ UNCHANGED watchVars
    /\ UNCHANGED <<argv, libVars, cache, now, pubVars, addVars>>

\* case 'publish': watchPublish or publish
CliPublish ==
    /\ pc = "cli"
    /\ argv.command = "publish"
    /\ Call("pub_read", IF argv.watch THEN "watch" ELSE "end")
    /\ UNCHANGED <<argv, libVars, cache, now, pubVars, addVars, watchVars>>


-----------------------------------------------------------------------------
(* One-shot add on a cache of any content *)

NoPublish == [n |-> 0, name |-> NoText, version |-> NoText, stamp |-> 0]
NoManifest == [ok |-> FALSE, name |-> NoText, version |-> NoText]

\* the producer side and the watcher at rest
InitRest ==
    /\ pc = "cli"
    /\ ret = "end"
    /\ exitCode = -1
    /\ active = 0
    /\ runs = 1
    /\ packageJson = NoManifest
    /\ ptodo = <<>>
    /\ pbefore = {}
    /\ plast = NoPublish
    /\ pprev = NoPublish
    /\ files = <<>>
    /\ latest = NoTarball
    /\ installs = <<>>
    /\ writes = 0
    /\ watching = FALSE
    /\ queue = <<>>
    /\ timers = {}
    /\ debounceTimeout = 0
    /\ arrivals = 0
    /\ lastArrival = -1
    /\ bursts = 0
    /\ fires = 0
    /\ result = <<>>

DepNames == {Foo, Bar, ScopedFoo}
OldLocator == dependencyPath("linux", newTarballName(Foo, V100, 7))
BarLocator == dependencyPath("linux", Bar100at100)

\* the consumer manifests: unreadable, or with or without a declaration of
\* the package, of an earlier tarball or of the empty range; bar is declared
\* in all of them
ConsumerManifests ==
    {[ok |-> o, deps |-> [n \in DepNames |->
                            IF n = Bar THEN Entry(BarLocator)
                            ELSE IF n = d THEN Entry(range) ELSE NoEntry]] :
        o \in BOOLEAN, d \in {NoText, Foo, ScopedFoo}, range \in {OldLocator, NoText}}

Foo100Manifest == [ok |-> TRUE, name |-> Foo, version |-> V100]
\* the caches add starts on: any files for foo, and for the other
\* arguments a tarball of the package or of other packages
CachesFor(packageName) ==
    IF packageName = Foo
    THEN {c \in SUBSET Universe : Cardinality(c) <= MaxFiles}
    ELSE SUBSET {SFoo100at100, Foo100at100, Bar100at100}

\* the consumer manifests add starts on: unreadable, or readable with or
\* without a declaration of the package
ManifestsFor(packageName) ==
    {m \in ConsumerManifests :
        /\ ~m.ok => (~m.deps[Foo].has /\ ~m.deps[ScopedFoo].has)
        /\ \A n \in {Foo, ScopedFoo} : m.deps[n].has => n = packageName}

InitAdd ==
    /\ InitRest
    /\ call = <<>>
    /\ argv \in [command : {"add"}, packageName : {Foo, ScopedFoo, NoText},
                 watch : {FALSE}]
    /\ cache \in CachesFor(argv.packageName)
    /\ now = StartTime
    /\ pkg = Foo100Manifest
    /\ platform \in {"linux", "win32"}
    /\ consumer \in ManifestsFor(argv.packageName)

NextAdd ==
    \/ CliAdd
    \/ AddList
    \/ AddSelect
    \/ AddManifest
    \/ AddInstall

SpecAdd == InitAdd /\ [][NextAdd]_vars

-----------------------------------------------------------------------------
(* watchPublish and watchAdd (src/index.ts 213-231, 335-363) *)

\* the function the timeout calls: publish(false) or add(packageName)
Governed == IF argv.command = "publish" THEN "pub_read" ELSE "add"

\* the test of the callback of watchAdd (lines 345-349); the callback of
\* watchPublish takes every event
Accepts(filename) ==
    IF argv.command = "publish" THEN TRUE
    ELSE /\ filename # NoText
         /\ IsTarballOf(filename, getSafePackageName(argv.packageName))

\* a loop that runs callbacks at any time
LoopAlways == TRUE

\* the event loop runs a callback when the call stack is empty: publish()
\* and add() are synchronous and block on execSync (lines 172, 322)
LoopIdle == pc = "loop"

\* a timeout that has expired and that the loop can run now
TimerDue == LoopIdle /\ \E t \in timers : t.deadline <= now

\* lines 218-230 and 344-362: fs.watch registers the callback, or throws
WatchStart ==
    /\ pc = "watch"
    /\ \/ /\ watching' = TRUE
          /\ pc' = "loop"
          /\ UNCHANGED <<ret, exitCode, active, queue, timers, debounceTimeout,
                         arrivals, lastArrival, bursts, fires>>
       \/ Exit(1)
    /\ UNCHANGED <<argv, libVars, cache, now, pubVars, addVars>>

\* the system queues a change event for the watcher.  An expired timeout
\* runs before the loop polls for events of the same instant.  An accepted
\* event opens a burst when it comes a quiet period or more after the last
\* accepted one and the timeouts of all earlier bursts have fired
Arrive(filename) ==
    /\ watching
    /\ ~TimerDue
    /\ arrivals < MaxEvents
    /\ queue' = Append(queue, filename)
    /\ arrivals' = arrivals + 1
    /\ IF Accepts(filename)
       THEN /\ lastArrival' = now
            /\ bursts' = IF \/ lastArrival = -1
                            \/ (now - lastArrival >= DebounceMs /\ fires = bursts)
                         THEN bursts + 1 ELSE bursts
       ELSE UNCHANGED <<lastArrival, bursts>>
    /\ UNCHANGED <<watching, timers, debounceTimeout, fires>>

\* a file of the build directory changes (publish --watch)
BuildChange ==
    /\ argv.command = "publish"
    /\ Arrive(IndexJs)
    /\ UNCHANGED <<argv, libVars, procVars, cache, now, pubVars, addVars>>

\* another process writes a tarball into the cache (add --watch); fs.watch
\* may report the event without a file name
CacheChange ==
    /\ argv.command = "add"
    /\ \E f \in WatchUniverse :
          /\ cache' = cache \cup {f}
          /\ \E filename \in {f, NoText} : Arrive(filename)
    /\ UNCHANGED <<argv, libVars, procVars, now, pubVars, addVars>>

\* a callback that schedules a timeout and cancels none
DeliverNoClear ==
    /\ LoopIdle
    /\ queue # <<>>
    /\ queue' = Tail(queue)
    /\ IF Accepts(Head(queue))
       THEN /\ timers' = timers \cup {[id |-> debounceTimeout + 1,
                                       deadline |-> now + DebounceMs]}
            /\ debounceTimeout' = debounceTimeout + 1
       ELSE UNCHANGED <<timers, debounceTimeout>>
    /\ UNCHANGED <<argv, libVars, procVars, cache, now, pubVars, addVars, watching, arrivals,
                   lastArrival, bursts, fires>>

\* a callback that cancels the pending timeout and schedules one only when
\* none was pending
DeliverClearOnly ==
    /\ LoopIdle
    /\ queue # <<>>
    /\ queue' = Tail(queue)
    /\ IF Accepts(Head(queue))
       THEN /\ timers' = IF timers = {}
                         THEN {[id |-> debounceTimeout + 1,
                                deadline |-> now + DebounceMs]}
                         ELSE {}
            /\ debounceTimeout' = debounceTimeout + 1
       ELSE UNCHANGED <<timers, debounceTimeout>>
    /\ UNCHANGED <<argv, libVars, procVars, cache, now, pubVars, addVars, watching, arrivals,
                   lastArrival, bursts, fires>>

\* the callback of fs.watch (lines 219-225, 345-356): clearTimeout of the
\* timeout scheduled last, then setTimeout
Deliver ==
    /\ LoopIdle
    /\ queue # <<>>
    /\ queue' = Tail(queue)
    /\ IF Accepts(Head(queue))
       THEN /\ timers' = {t \in timers : t.id # debounceTimeout}
                            \cup {[id |-> debounceTimeout + 1,
                                   deadline |-> now + DebounceMs]}
            /\ debounceTimeout' = debounceTimeout + 1
       ELSE UNCHANGED <<timers, debounceTimeout>>
    /\ UNCHANGED <<argv, libVars, procVars, cache, now, pubVars, addVars, watching, arrivals,
                   lastArrival, bursts, fires>>

\* the callback of setTimeout (lines 221-224, 351-356) starts the governed
\* operation
TimerFire ==
    /\ LoopIdle
    /\ \E t \in timers :
          /\ t.deadline <= now
          /\ timers' = timers \ {t}
    /\ fires' = fires + 1
    /\ Call(Governed, "loop")
    /\ UNCHANGED <<argv, libVars, cache, now, pubVars, addVars, watching, queue,
                   debounceTimeout, arrivals, lastArrival, bursts>>

\* the clock advances; an idle loop runs its callbacks first
Tick ==
    /\ pc # "exited"
    /\ now + TickMs <= MaxTime
    /\ ~(LoopIdle /\ queue # <<>>)
    /\ ~TimerDue
    /\ now' = now + TickMs
    /\ UNCHANGED <<argv, libVars, procVars, cache, pubVars, addVars, watchVars>>

-----------------------------------------------------------------------------
(* The producer's shell: publish run again, package.json edited *)

\* the developer starts the command again once the process has exited
Rerun ==
    /\ pc = "exited"
    /\ runs < MaxRuns
    /\ runs' = runs + 1
    /\ pc' = "cli"
    /\ ret' = "end"
    /\ exitCode' = -1
    /\ active' = 0
    /\ UNCHANGED <<argv, libVars, cache, now, pkg, packageJson, ptodo, pbefore, plast, pprev,
                   addVars, watchVars>>

\* the manifests of the producer: unreadable, without a name or a version,
\* or complete
ProducerManifests ==
    {NoManifest,
     [ok |-> TRUE, name |-> NoText, version |-> V100],
     [ok |-> TRUE, name |-> Foo, version |-> NoText],
     [ok |-> TRUE, name |-> Foo, version |-> V100],
     [ok |-> TRUE, name |-> Foo, version |-> V100beta],
     [ok |-> TRUE, name |-> ScopedFoo, version |-> V100]}

\* the developer edits package.json.  publish reads the file once, at its
\* start (line 153), so an edit during a run is an edit before the next one
EditManifest ==
    /\ pc = "exited"
    /\ pkg' \in ProducerManifests \ {pkg}
    /\ UNCHANGED <<argv, libVars, procVars, cache, now, runs, packageJson, ptodo, pbefore, plast,
                   pprev, addVars, watchVars>>

\* the files the cache may hold when publish starts
PubUniverse ==
    {Foo100at100, Foo100at200, Foo100betaAt150, Foo100Unstamped, Foo120at50,
     Bar100at100, SFoo100at100, Foo2v100at300}

FooManifest == [ok |-> TRUE, deps |-> [n \in DepNames |->
                   IF n = Bar THEN Entry(BarLocator)
                   ELSE IF n = Foo THEN Entry(OldLocator) ELSE NoEntry]]

InitPublish ==
    /\ InitRest
    /\ call = <<>>
    /\ argv = [command |-> "publish", packageName |-> NoText, watch |-> FALSE]
    /\ cache \in {c \in SUBSET PubUniverse : Cardinality(c) <= MaxFiles}
    /\ now = StartTime
    /\ pkg \in ProducerManifests
    /\ platform = "linux"
    /\ consumer = FooManifest

NextPublish ==
    \/ CliPublish
    \/ PubRead
    \/ PubPack
    \/ PubCheck
    \/ PubList
    \/ PubRemove
    \/ PubRename
    \/ Rerun
    \/ EditManifest

SpecPublish == InitPublish /\ [][NextPublish]_vars

-----------------------------------------------------------------------------
(* The watch commands: publish --watch and add <pkg> --watch *)

InitWatch ==
    /\ InitRest
    /\ call = <<>>
    /\ argv \in {[command |-> "publish", packageName |-> NoText, watch |-> TRUE],
                 [command |-> "add", packageName |-> Foo, watch |-> TRUE]}
    /\ cache \in {{}, {Foo100at100}}
    /\ now = StartTime
    /\ pkg = Foo100Manifest
    /\ platform = "linux"
    /\ consumer \in {m \in ConsumerManifests :
                        /\ m.ok
                        /\ ~m.deps[ScopedFoo].has
                        /\ m.deps[Foo].has => m.deps[Foo].range # NoText}

NextWatch ==
    \/ CliPublish
    \/ CliAdd
    \/ PubRead
    \/ PubPack
    \/ PubCheck
    \/ PubList
    \/ PubRemove
    \/ PubRename
    \/ AddList
    \/ AddSelect
    \/ AddManifest
    \/ AddInstall
    \/ WatchStart
    \/ BuildChange
    \/ CacheChange
    \/ Deliver
    \/ TimerFire
    \/ Tick

SpecWatch == InitWatch /\ [][NextWatch]_vars

-----------------------------------------------------------------------------
(* add <pkg> --watch next to the producers of other packages *)

\* the tarballs of packages whose names start with the name of the package
\* add watches for, and a hyphen
PrefixedUniverse == {FooBar100at100}

\* the producer of such a package writes its tarball into the cache
CacheChangeOther ==
    /\ argv.command = "add"
    /\ \E f \in PrefixedUniverse :
          /\ cache' = cache \cup {f}
          /\ \E filename \in {f, NoText} : Arrive(filename)
    /\ UNCHANGED <<argv, libVars, procVars, now, pubVars, addVars>>

InitWatchAdd ==
    /\ InitWatch
    /\ argv.command = "add"
    /\ consumer = FooManifest

NextWatchAdd ==
    \/ CliAdd
    \/ AddList
    \/ AddSelect
    \/ AddManifest
    \/ AddInstall
    \/ WatchStart
    \/ CacheChange
    \/ CacheChangeOther
    \/ Deliver
    \/ TimerFire
    \/ Tick

SpecWatchAdd == InitWatchAdd /\ [][NextWatchAdd]_vars

-----------------------------------------------------------------------------
(* The command line with any verb *)

\* a usage text that ends the process with a failure status
CliUsageFail ==
    /\ pc = "cli"
    /\ argv.command \notin {"publish", "add"}
    /\ Exit(1)
    /\ UNCHANGED <<argv, libVars, cache, now, pubVars, addVars>>

\* default: the usage text, then process.exit(0) (lines 398-414)
CliUsage ==
    /\ pc = "cli"
    /\ argv.command \notin {"publish", "add"}
    /\ Exit(0)
    /\ UNCHANGED <<argv, libVars, cache, now, pubVars, addVars>>

\* process.argv.slice(2): no verb (""), a verb the switch does not know,
\* publish and add with and without --watch, add with and without a name
CliArgs ==
    {[command |-> "", packageName |-> NoText, watch |-> FALSE],
     [command |-> "remove", packageName |-> Foo, watch |-> FALSE]}
        \cup [command : {"publish"}, packageName : {NoText}, watch : BOOLEAN]
        \cup [command : {"add"}, packageName : {Foo, NoText}, watch : BOOLEAN]

UnreadableConsumer == [ok |-> FALSE, deps |-> [n \in DepNames |-> NoEntry]]

\* a one-shot command starts on any manifest of the producer and on a
\* readable or unreadable manifest of the consumer
InitCli ==
    /\ InitRest
    /\ call = <<>>
    /\ argv \in CliArgs
    /\ cache \in {{}, {Foo100at100}}
    /\ now = StartTime
    /\ pkg \in IF argv.command = "publish" /\ ~argv.watch
               THEN ProducerManifests ELSE {Foo100Manifest}
    /\ platform = "linux"
    /\ consumer \in IF argv.command = "add" /\ ~argv.watch
                    THEN {FooManifest, UnreadableConsumer} ELSE {FooManifest}

NextCli ==
    \/ NextWatch
    \/ CliUsage

SpecCli == InitCli /\ [][NextCli]_vars

-----------------------------------------------------------------------------
(* publish --watch under fair scheduling *)

\* the clock past MaxTime, kept relative: the time left to the pending
\* timeouts and the time since the last accepted event change as they do
\* when the clock advances by TickMs
Elapse ==
    /\ pc # "exited"
    /\ now + TickMs > MaxTime
    /\ ~(LoopIdle /\ queue # <<>>)
    /\ ~TimerDue
    /\ timers # {}
    /\ timers' = {[id |-> t.id, deadline |-> t.deadline - TickMs] : t \in timers}
    /\ lastArrival' = IF lastArrival = -1 THEN -1 ELSE Max(0, lastArrival - TickMs)
    /\ UNCHANGED <<argv, libVars, procVars, cache, now, pubVars, addVars, watching,
                   queue, debounceTimeout, arrivals, bursts, fires>>

\* the steps of the node process: the synchronous code of watchPublish and
\* publish, and the callbacks the event loop runs
ProgramStep ==
    \/ CliPublish
    \/ PubRead
    \/ PubPack
    \/ PubCheck
    \/ PubList
    \/ PubRemove
    \/ PubRename
    \/ WatchStart
    \/ Deliver
    \/ TimerFire

ClockStep == Tick \/ Elapse

InitWatchFair ==
    /\ InitWatch
    /\ argv.command = "publish"
    /\ consumer = FooManifest

NextWatchFair ==
    \/ ProgramStep
    \/ BuildChange
    \/ Tick
    \/ Elapse

\* the process runs while it has something to run and time passes; the
\* changes of the watched directory come or not
SpecWatchFair ==
    /\ InitWatchFair
    /\ [][NextWatchFair]_vars
    /\ WF_vars(ProgramStep)
    /\ WF_vars(ClockStep)

-----------------------------------------------------------------------------
(* Calls of the functions of the program on texts of any kind *)

\* the process at rest while one of its functions is called
InitLib ==
    /\ InitRest
    /\ argv = [command |-> "", packageName |-> NoText, watch |-> FALSE]
    /\ cache = {}
    /\ now = StartTime
    /\ pkg = NoManifest
    /\ platform = "linux"
    /\ consumer = FooManifest

Dot == <<".">>
Alpha == <<"a", "l", "p", "h", "a">>
Beta == <<"b", "e", "t", "a">>
Rc == <<"r", "c">>
V101 == <<"1", ".", "0", ".", "1">>

\* the versions of the precedence example of semver.org, in ascending order
PrecedenceChain ==
    <<V100 \o Hyphen \o Alpha,
      V100 \o Hyphen \o Alpha \o Dot \o <<"1">>,
      V100 \o Hyphen \o Alpha \o Dot \o Beta,
      V100 \o Hyphen \o Beta,
      V100 \o Hyphen \o Beta \o Dot \o <<"2">>,
      V100 \o Hyphen \o Beta \o Dot \o <<"1", "1">>,
      V100 \o Hyphen \o Rc \o Dot \o <<"1">>,
      V100,
      V101>>

\* version texts of the grammar of parseSemVer
VersionTexts ==
    Range(PrecedenceChain) \cup
    {V10, V120, <<"v">> \o V100, <<"2">>,
     V100 \o Hyphen \o <<"B", "e", "t", "a">>,
     V100 \o Hyphen \o Alpha \o Dot \o Dot \o <<"1">>,
     V100 \o Hyphen \o <<"1", "0", "0", "0">>,
     V100 \o Hyphen \o <<"1", "e", "3">>,
     V100 \o Hyphen \o Alpha \o Hyphen \o <<"1">>}

\* compareSemVer on the versions of two texts
CompareTexts(a, b) == compareSemVer(parseSemVer(a), parseSemVer(b))

\* compareSemVer is called on each pair of three versions
CallCompare ==
    /\ result = <<>>
    /\ result' = [ab |-> CompareTexts(call.a, call.b),
                  ba |-> CompareTexts(call.b, call.a),
                  bc |-> CompareTexts(call.b, call.c),
                  ac |-> CompareTexts(call.a, call.c)]
    /\ UNCHANGED <<argv, call, procVars, cache, now, pubVars, addVars, watchVars>>

InitCompare ==
    /\ InitLib
    /\ call \in [a : VersionTexts, b : VersionTexts, c : VersionTexts]

NextCompare == CallCompare

SpecCompare == InitCompare /\ [][NextCompare]_vars

\* the text of a version: an optional "v", the major number with or
\* without a leading zero, the minor and patch numbers unless they are -1,
\* the prerelease suffix unless it is empty
DotNumber(n) == IF n < 0 THEN <<>> ELSE Dot \o ToDigits(n)
SuffixOf(pre) == IF pre = <<>> THEN <<>> ELSE Hyphen \o pre
VersionText(prefix, zeros, major, minor, patch, pre) ==
    prefix \o zeros \o ToDigits(major) \o DotNumber(minor) \o DotNumber(patch)
        \o SuffixOf(pre)

\* white space around a text
Padded(pad, text) ==
    IF pad = "lead" THEN <<" ">> \o text
    ELSE IF pad = "trail" THEN text \o <<" ", " ">>
    ELSE text

\* the minor and patch numbers a version text may give: none, the minor
\* alone, or both
MinorPatch == {<<-1, -1>>, <<0, -1>>, <<2, -1>>, <<0, 3>>, <<2, 3>>}

\* texts of the grammar [v]MAJOR[.MINOR[.PATCH]][-prerelease], with the
\* numbers they give, bare or with white space around
GrammarCalls ==
    {[text |-> Padded(pad, VersionText(prefix, zeros, major, mp[1], mp[2], pre)),
      grammar |-> TRUE, padded |-> pad # "none",
      major |-> major, minor |-> Max(mp[1], 0), patch |-> Max(mp[2], 0)] :
        prefix \in {<<>>, <<"v">>}, zeros \in {<<>>, <<"0">>}, major \in {0, 2, 10},
        mp \in MinorPatch,
        pre \in {<<>>, Beta, Rc \o Dot \o <<"1">>, Alpha \o Hyphen \o <<"1">>},
        pad \in {"none", "lead", "trail"}}

\* texts that are not of the grammar, also once the white space around them
\* is removed
OtherTexts ==
    {<<>>, <<"v">>, <<"V", "1">>, <<"1", ".">>, <<".", "1">>, <<"1", ".", ".", "2">>,
     V100 \o Dot \o <<"0">>, V100 \o Hyphen, V100 \o <<"+", "b">>,
     V100 \o Hyphen \o <<"b", "!">>, <<"1", " ", ".", "0">>, Beta, <<" ">>,
     <<"v", " ", "1">>, <<"1", ".", "x">>, <<"-", "1">>}

OtherCalls ==
    {[text |-> t, grammar |-> FALSE, padded |-> FALSE,
      major |-> 0, minor |-> 0, patch |-> 0] : t \in OtherTexts}

\* parseSemVer is called on a text
CallParse ==
    /\ result = <<>>
    /\ result' = parseSemVer(call.text)
    /\ UNCHANGED <<argv, call, procVars, cache, now, pubVars, addVars, watchVars>>

InitParse ==
    /\ InitLib
    /\ call \in GrammarCalls \cup OtherCalls

NextParse == CallParse

SpecParse == InitParse /\ [][NextParse]_vars

\* sanitized package names, with and without hyphens
SafeNames ==
    {Foo, getSafePackageName(ScopedFoo), Foo \o Hyphen \o Bar, Foo \o <<"-", "2">>}

\* values of Date.now()
Timestamps == {0, 7, StartTime, 1234567890}

\* publish names a tarball (line 197)
CallEncode ==
    /\ result = <<>>
    /\ result' = [file |-> newTarballName(call.name, call.version, call.timestamp),
                  decoded |-> FALSE, tarball |-> NoTarball]
    /\ UNCHANGED <<argv, call, procVars, cache, now, pubVars, addVars, watchVars>>

\* add decodes the name for the same package (lines 250-270)
CallDecode ==
    /\ result # <<>>
    /\ ~result.decoded
    /\ result' = [file |-> result.file, decoded |-> TRUE,
                  tarball |-> decodeTarball(result.file, call.name)]
    /\ UNCHANGED <<argv, call, procVars, cache, now, pubVars, addVars, watchVars>>

InitRoundTrip ==
    /\ InitLib
    /\ call \in [name : SafeNames, version : VersionTexts, timestamp : Timestamps]

NextRoundTrip ==
    \/ CallEncode
    \/ CallDecode

SpecRoundTrip == InitRoundTrip /\ [][NextRoundTrip]_vars

\* words a package name is made of; the last two are not words of a
\* well-formed name
NameWords ==
    {Foo, Bar, <<"s">>, <<"s", "c", "o", "p", "e">>, <<"p", "k", "g">>,
     Foo \o Hyphen \o Bar, <<"x">>, <<"@", "s">>, <<"a", "/", "b">>}

IsNameWord(w) == \A i \in 1..Len(w) : w[i] \notin {"@", "/"}

\* name, or @scope/name when there is a scope
RawName(scope, name) ==
    IF scope = <<>> THEN name ELSE <<"@">> \o scope \o <<"/">> \o name

\* the raw names: packageName, whether it is name or @scope/name with
\* words free of "@" and "/", and whether it has a scope
NameCalls ==
    {[packageName |-> RawName(scope, name), scope |-> scope, name |-> name,
      wellFormed |-> IsNameWord(scope) /\ IsNameWord(name)] :
        scope \in NameWords \cup {<<>>}, name \in NameWords}

\* getSafePackageName is called on a raw name
CallSafeName ==
    /\ result = <<>>
    /\ result' = [safePackageName |-> getSafePackageName(call.packageName)]
    /\ UNCHANGED <<argv, call, procVars, cache, now, pubVars, addVars, watchVars>>

InitSafeName ==
    /\ InitLib
    /\ call \in NameCalls

NextSafeName == CallSafeName

SpecSafeName == InitSafeName /\ [][NextSafeName]_vars

\* prerelease identifiers of the class [0-9A-Za-z-]: runs of digits, words,
\* and texts Number() reads as a number without being runs of digits
Identifiers ==
    {<<"0">>, <<"7">>, <<"1", "1">>, <<"0", "0", "7">>, Alpha, Rc,
     <<"1", "e", "3">>, <<"1", "E", "2">>, <<"0", "x", "1", "0">>, <<"0", "b", "1">>,
     InfinityText, <<"-", "1">>, Alpha \o Hyphen \o <<"1">>, <<"1", "-">>}

\* the prerelease texts of one or two identifiers
PrereleaseCalls ==
    {[input |-> id, segments |-> <<id>>] : id \in Identifiers}
        \cup {[input |-> a \o Dot \o b, segments |-> <<a, b>>] :
                 a \in Identifiers, b \in Identifiers}

\* parsePrerelease is called on the text of a prerelease
CallPrerelease ==
    /\ result = <<>>
    /\ result' = [ids |-> parsePrerelease(call.input)]
    /\ UNCHANGED <<argv, call, procVars, cache, now, pubVars, addVars, watchVars>>

InitPrerelease ==
    /\ InitLib
    /\ call \in PrereleaseCalls

NextPrerelease == CallPrerelease

SpecPrerelease == InitPrerelease /\ [][NextPrerelease]_vars

-----------------------------------------------------------------------------
(* Properties of the selection step of add *)

SafeArg == getSafePackageName(argv.packageName)

\* the candidates of the sort: the decoded entries of the listing
Candidates == Range(decodeAll(files, SafeArg))

\* add has run its selection step (lines 249-291)
Selected == pc \notin {"cli", "add", "add_select"}

\* the state the selection step leaves: a tarball selected, or none and the
\* exit of line 275.  files and latest do not change afterwards
JustSelected ==
    \/ pc = "add_manifest"
    \/ (pc = "exited" /\ ~latest.ok /\ Len(files) > 0)

C2_LargestTimestampWins ==
    latest.ok =>
        \A t \in Candidates :
            (compareSemVer(t.version, latest.version) = 0 /\ ~JsIsNaN(t.timestamp))
                => /\ ~JsIsNaN(latest.timestamp)
                   /\ latest.timestamp.num >= t.timestamp.num

\* C10: every candidate that takes part in the sort has an integer timestamp.
C10_IntegerTimestamps == \A t \in Candidates : ~JsIsNaN(t.timestamp)

\* the text between the package prefix and the extension
InnerOf(file, safePackageName) ==
    SliceFrom(Slice(file, 0, -4), Len(safePackageName) + 1)

\* an entry with no hyphen left after the prefix, or whose version part
\* does not parse
MalformedInner(inner) ==
    \/ LastIndexOf(inner, "-") = -1
    \/ ~parseSemVer(Substring(inner, 0, LastIndexOf(inner, "-"))).ok
Malformed(file, safePackageName) == MalformedInner(InnerOf(file, safePackageName))

RemoveAt(s, i) == SubSeq(s, 1, i - 1) \o SubSeq(s, i + 1, Len(s))

\* C9: a malformed entry of the listing is excluded: what add selects (a
\* tarball, or none and the exit) is what it selects from the listing
\* without that entry.
C9_MalformedExcluded ==
    JustSelected =>
        \A i \in 1..Len(files) :
            Malformed(files[i], SafeArg)
                => latest = ResolveFiles(RemoveAt(files, i), SafeArg).latest

\* add selected a tarball from a listing that holds foo-1.0.0.tgz, which
\* has no hyphen after the prefix, and foo-bar-1.0.0-100.tgz, whose version
\* part bar-1.0.0 does not parse
C9_Witness ==
    /\ Selected
    /\ latest.ok
    /\ \E i, j \in 1..Len(files) :
          files[i] = Foo100Unstamped /\ files[j] = FooBar100at100

\* no file of the directory decodes as a tarball of the package
NoDecodable(dir, safePackageName) ==
    \A f \in dir : IsTarballOf(f, safePackageName) => ~decodeTarball(f, safePackageName).ok

-----------------------------------------------------------------------------
(* Properties of publish *)

\* a stamped tarball of the pair: <safeName>-<versionText>-<digits>.tgz
IsStampedOf(file, safePackageName, versionText) ==
    /\ StartsWith(file, existingPrefix(safePackageName, versionText))
    /\ EndsWith(file, TgzExt)
    /\ AllDigitsOfBase(
           Slice(file, Len(existingPrefix(safePackageName, versionText)), -4), 10)

\* the stamped tarballs in dir of the name and version of p
StampedOf(dir, p) ==
    {f \in dir : IsStampedOf(f, SafeNameOf(p), p.version)}

SamePair(a, b) == a.name = b.name /\ a.version = b.version

\* C3: once two successive successful publishes of the same name and
\* version text have run, the cache holds exactly one stamped tarball of
\* that pair, the one the second publish stored, and its timestamp is
\* greater than the timestamp of the first.
C3_OneArtifactNewerStamp ==
    (pc = "exited" /\ exitCode = 0 /\ plast.n >= 2 /\ SamePair(plast, pprev))
        => /\ StampedOf(cache, plast) = {NewNameOf(plast, plast.stamp)}
           /\ plast.stamp > pprev.stamp

\* foo was published twice, and the tarball of the first publish was in
\* the cache when the second started
C3_Witness ==
    /\ pc = "exited"
    /\ exitCode = 0
    /\ plast.n = 2
    /\ SamePair(plast, pprev)
    /\ plast.name = Foo
    /\ NewNameOf(pprev, pprev.stamp) \in pbefore

\* C6: at every step of a publish that started on a cache holding a
\* stamped tarball of the published name and version, the cache holds at
\* least one stamped tarball of that name and version.
C6_NeverMissing ==
    (pc \in {"pub_pack", "pub_check", "pub_list", "pub_rm"}
        /\ StampedOf(pbefore, packageJson) # {})
            => StampedOf(cache, packageJson) # {}

\* C7: publish removes the stamped tarballs of the published name and
\* version text, all of them by the end of its loop, and no other file:
\* every other file of the cache it started on (but the unstamped tarball
\* it renames) is still there.
C7_DeletesExactly ==
    /\ \A f \in pbefore :
          \/ f \in cache
          \/ f \in StampedOf(pbefore, packageJson)
          \/ f = OriginalOf(packageJson)
    /\ (pc = "pub_rm" /\ ptodo = <<>>)
          => cache \cap StampedOf(pbefore, packageJson) = {}

-----------------------------------------------------------------------------
(* Properties of the watch loop *)

\* the loop is idle with no event to deliver and no timeout pending
Quiescent == pc = "loop" /\ queue = <<>> /\ timers = {}

\* C4: each burst of accepted events (events less than DebounceMs apart)
\* starts the governed operation exactly once: never more executions than
\* bursts, every earlier burst has had its execution, and when the loop is
\* at rest every burst has had one.  An event that arrives a quiet period
\* after the last one, once the execution has started, opens the next
\* burst and so gets an execution of its own.
C4_OneExecutionPerBurst ==
    /\ fires <= bursts
    /\ bursts <= fires + 1
    /\ Quiescent => fires = bursts

\* publish --watch at rest after three events in two bursts and two
\* executions
C4_Witness ==
    /\ argv.command = "publish"
    /\ Quiescent
    /\ arrivals = 3
    /\ bursts = 2
    /\ fires = 2

\* C5: at most one call of publish() or add() has not returned.
C5_OneAtATime == active <= 1

\* an event is queued while the debounced publish waits for "pnpm pack"
C5_Witness ==
    /\ pc = "pub_pack"
    /\ ret = "loop"
    /\ active = 1
    /\ queue # <<>>

-----------------------------------------------------------------------------
(* Properties of the functions on versions and names *)

Sign(n) == IF n < 0 THEN -1 ELSE IF n > 0 THEN 1 ELSE 0

\* C11: compareSemVer is a total order on parsed versions: the comparison
\* of b with a has the opposite sign of that of a with b, a <= b and b <= c
\* give a <= c, the result is zero exactly when the two parsed versions are
\* equal, and the versions of the precedence chain 1.0.0-alpha < ... <
\* 1.0.0 < 1.0.1 compare in that order.
C11_TotalOrder ==
    result # <<>> =>
        /\ Sign(result.ba) = 0 - Sign(result.ab)
        /\ (result.ab <= 0 /\ result.bc <= 0) => result.ac <= 0
        /\ (result.ab = 0) <=> (parseSemVer(call.a) = parseSemVer(call.b))
        /\ \A i, j \in 1..Len(PrecedenceChain) :
              (i < j /\ call.a = PrecedenceChain[i] /\ call.b = PrecedenceChain[j])
                  => result.ab < 0

\* 1.0.0-alpha.1, 1.0.0-alpha.beta and 1.0.0-beta.11 were compared
C11_Witness ==
    /\ result # <<>>
    /\ call.a = PrecedenceChain[2]
    /\ call.b = PrecedenceChain[3]
    /\ call.c = PrecedenceChain[6]
    /\ result.ab < 0
    /\ result.bc < 0

\* the version parseSemVer returned has the numbers of the text
NumbersOfCall ==
    /\ result.ok
    /\ result.major = call.major
    /\ result.minor = call.minor
    /\ result.patch = call.patch

\* C12: on a text of the grammar [v]MAJOR[.MINOR[.PATCH]][-prerelease]
\* parseSemVer returns the version with the numbers of the text, 0 for an
\* omitted minor or patch, and on any other text it returns null.
C12_GrammarOnly ==
    result # <<>> =>
        IF call.grammar /\ ~call.padded THEN NumbersOfCall ELSE ~result.ok

\* C12, amended: the same with the grammar applied to the text without
\* the white space around it.
C12_GrammarOfTrimmed ==
    result # <<>> =>
        IF call.grammar THEN NumbersOfCall ELSE ~result.ok

\* " v2" was parsed as 2.0.0
C12_Witness ==
    /\ result # <<>>
    /\ call.text = <<" ", "v", "2">>
    /\ result.ok
    /\ result.major = 2
    /\ result.minor = 0
    /\ result.patch = 0

\* the version text add cuts out of a file name (lines 253-259)
VersionStringOf(file, safePackageName) ==
    Substring(InnerOf(file, safePackageName), 0,
              LastIndexOf(InnerOf(file, safePackageName), "-"))

\* C13: decoding the name publish gives to the tarball of (n, v, t), for the
\* package n, recovers v and t: the version text cut out is v, the version
\* is the parsed v and the timestamp is the integer t.
C13_RoundTrip ==
    (result # <<>> /\ result.decoded) =>
        /\ result.tarball.ok
        /\ VersionStringOf(result.file, call.name) = call.version
        /\ result.tarball.version = parseSemVer(call.version)
        /\ result.tarball.timestamp = JsInt(call.timestamp)

\* foo-bar-1.0.0-alpha-1-1234567890.tgz was decoded for the package foo-bar
C13_Witness ==
    /\ result # <<>>
    /\ result.decoded
    /\ call.name = Foo \o Hyphen \o Bar
    /\ call.version = V100 \o Hyphen \o Alpha \o Hyphen \o <<"1">>
    /\ call.timestamp = 1234567890
    /\ result.tarball.ok

\* the name is free of "/" and does not start with "@"; it is scope-name
\* for @scope/name and the raw name itself when that does not start with "@"
SafeNameOfCall ==
    /\ \A i \in 1..Len(result.safePackageName) : result.safePackageName[i] # "/"
    /\ ~StartsWith(result.safePackageName, <<"@">>)
    /\ (call.scope # <<>> /\ call.wellFormed)
          => result.safePackageName = call.scope \o Hyphen \o call.name
    /\ ~StartsWith(call.packageName, <<"@">>)
          => result.safePackageName = call.packageName

\* C14: for every raw package name the sanitized name has no "/" and no
\* leading "@", @scope/name gives scope-name, and a name that does not
\* start with "@" is returned unchanged.
C14_SafeNameOfAny == result # <<>> => SafeNameOfCall

\* C14, amended: the same for the raw names of the form name or
\* @scope/name, where scope and name hold neither "@" nor "/".
C14_SafeNameOfWellFormed == (result # <<>> /\ call.wellFormed) => SafeNameOfCall

\* @scope/pkg was sanitized to scope-pkg
C14_Witness ==
    /\ result # <<>>
    /\ call.packageName = <<"@", "s", "c", "o", "p", "e", "/", "p", "k", "g">>
    /\ result.safePackageName = <<"s", "c", "o", "p", "e", "-", "p", "k", "g">>

-----------------------------------------------------------------------------
(* Properties of the failures and of the exit status *)

\* a stamped tarball of any package: <text>-<digits>.tgz
IsStamped(file) ==
    /\ EndsWith(file, TgzExt)
    /\ LastIndexOf(Slice(file, 0, -4), "-") >= 0
    /\ AllDigitsOfBase(
           SliceFrom(Slice(file, 0, -4), LastIndexOf(Slice(file, 0, -4), "-") + 1), 10)

Stamped(dir) == {file \in dir : IsStamped(file)}

\* C15: when publish has failed (at the manifest read, at "pnpm pack" or at
\* the test that the packed tarball exists) the stamped tarballs of the
\* cache are those it held when publish started.
C15_FailureKeepsCache ==
    (argv.command = "publish" /\ pc = "exited" /\ exitCode = 1)
        => Stamped(cache) = Stamped(pbefore)

\* publish of a version that has a stamped tarball in the cache failed
\* after the manifest was read, with no packed tarball in the cache
C15_Witness ==
    /\ argv.command = "publish"
    /\ pc = "exited"
    /\ exitCode = 1
    /\ packageJson.ok
    /\ packageJson.name # NoText
    /\ packageJson.version # NoText
    /\ OriginalOf(packageJson) \notin cache
    /\ StampedOf(pbefore, packageJson) # {}

\* the watcher of the cache has been registered at some time, or a
\* debounced add has been scheduled or started
WatchBegun ==
    watching \/ arrivals > 0 \/ queue # <<>> \/ timers # {} \/ fires > 0

\* C16: under add --watch the watcher is registered only after the first
\* add has returned: while the first add runs, and when it has ended the
\* process (no tarball found, or any other failure), no watcher has been
\* registered and no debounced add has run.
C16_WatchAfterInitialAdd ==
    (argv.command = "add" /\ argv.watch) =>
        /\ WatchBegun => (installs # <<>> /\ (pc = "loop" \/ ret = "loop"))
        /\ (pc = "exited" /\ ret = "watch") => (exitCode = 1 /\ ~WatchBegun)

\* add --watch on a cache without a tarball of the package: the first add
\* has ended the process before the installer ran
C16_Witness ==
    /\ argv.command = "add"
    /\ argv.watch
    /\ pc = "exited"
    /\ exitCode = 1
    /\ ret = "watch"
    /\ files = <<>>
    /\ installs = <<>>
    /\ cache = {}

\* C17: when add goes on to "pnpm add", the consumer manifest has no
\* "dependencies" entry for the package, and the rewrite that removes one
\* has left the entries of the other packages as they were.
C17_NoEntryAtInstall ==
    [][(pc = "add_manifest" /\ pc' = "add_install") =>
           /\ ~DepOf(consumer', argv.packageName).has
           /\ \A n \in DepNames \ {argv.packageName} :
                  DepOf(consumer', n) = DepOf(consumer, n)]_vars

\* an accepted event waits in the queue of the loop, or its timeout is
\* pending
AcceptedWaiting ==
    \/ \E i \in DOMAIN queue : Accepts(queue[i])
    \/ timers # {}

\* a timeout has just started the governed operation
Started == pc = Governed /\ ret = "loop"

C19_OrderIndependent ==
    JustSelected =>
        \A listing \in Listings(cache) :
            resolveLatest(listing, argv.packageName).latest = latest

\* the switch of the command line knows no such verb
UnknownVerb == argv.command \notin {"publish", "add"}

\* a one-shot publish has stamped its tarball, a one-shot add has had the
\* installer record the tarball in the consumer manifest
OneShotDone ==
    /\ ~argv.watch
    /\ \/ argv.command = "publish" /\ plast.n > 0
       \/ /\ argv.command = "add"
          /\ installs # <<>>
          /\ DepOf(consumer, argv.packageName) = Entry(installs[Len(installs)])

\* C20: the process ends with status 0 when a one-shot publish or add has
\* succeeded and when the usage text is printed for an unknown or missing
\* verb, and with status 1 in every other case: a failure of publish or
\* add, a missing package name, a watch that cannot be established.
C20_ExitCodes ==
    pc = "exited" => exitCode = IF OneShotDone \/ UnknownVerb THEN 0 ELSE 1

\* the usage text for a verb the switch does not know
C20_Witness ==
    /\ pc = "exited"
    /\ exitCode = 0
    /\ argv.command = "remove"
    /\ installs = <<>>
    /\ plast.n = 0

\* C21: parsePrerelease stores an identifier as a number exactly when it is
\* a run of decimal digits, and every other identifier as its own text.
C21_NumberIffDigits ==
    result # <<>> =>
        /\ Len(result.ids) = Len(call.segments)
        /\ \A i \in DOMAIN call.segments :
              IF AllDigitsOfBase(call.segments[i], 10)
              THEN /\ result.ids[i].isNum
                   /\ result.ids[i].num = JsInt(ValueInBase(call.segments[i], 10))
              ELSE /\ ~result.ids[i].isNum
                   /\ result.ids[i].str = call.segments[i]

-----------------------------------------------------------------------------
(* Properties of the debounce state *)

\* the callback of fs.watch runs on an event it accepts
AcceptedDelivery ==
    /\ queue # <<>>
    /\ queue' = Tail(queue)
    /\ Accepts(Head(queue))

\* C22: at most one timeout is pending, the one scheduled last; the
\* callback of an accepted event leaves as the only pending timeout a new
\* one that is due DebounceMs later; and the timeout that fires is the one
\* scheduled last, so a cancelled one never fires.
C22_OnePendingTimer ==
    /\ [](/\ Cardinality(timers) <= 1
          /\ \A t \in timers : t.id = debounceTimeout)
    /\ [][AcceptedDelivery =>
             timers' = {[id |-> debounceTimeout', deadline |-> now + DebounceMs]}]_vars
    /\ [][fires' # fires =>
             (\E t \in timers : t.id = debounceTimeout /\ t.deadline <= now)]_vars

\* a second accepted event has replaced the timeout of the first before it
\* fired
C22_Witness ==
    /\ debounceTimeout = 2
    /\ fires = 0
    /\ Cardinality(timers) = 1
    /\ \A t \in timers : t.id = 2

\* the names a producer publishes under, the versions of its manifest and
\* the values of Date.now() its tarballs are stamped with
PackageNames == {Foo, Bar, Foo \o Hyphen \o Bar, Foo \o <<"-", "2">>, ScopedFoo}
ManifestVersions == {V100, V10, V120, V100beta}
Stamps == {50, 100, 150, 200, 300}

\* the stamped tarballs publish stores for a package (line 197)
ArtifactsOf(name) ==
    {newTarballName(getSafePackageName(name), v, t) :
        v \in ManifestVersions, t \in Stamps}

\* a tarball of a package other than name
IsOfOtherPackage(file, name) ==
    \E other \in PackageNames \ {name} : file \in ArtifactsOf(other)

\* C23: under add --watch the callback leaves the timeouts as they are on
\* an event without a file name, on one whose file name does not start with
\* the sanitized package name and a hyphen or does not end with .tgz, and on
\* every event for a tarball of another package.
C23_OtherEventsIgnored ==
    [][(/\ argv.command = "add"
        /\ queue # <<>>
        /\ queue' = Tail(queue)
        /\ \/ Head(queue) = NoText
           \/ ~StartsWith(Head(queue), SafeArg \o Hyphen)
           \/ ~EndsWith(Head(queue), TgzExt)
           \/ IsOfOtherPackage(Head(queue), argv.packageName))
            => UNCHANGED <<timers, debounceTimeout>>]_vars

\* C24: the tarball add selects for a package is never a tarball that was
\* published under another package name.
C24_OwnArtifactOnly ==
    (JustSelected /\ latest.ok) => ~IsOfOtherPackage(latest.file, argv.packageName)

\* a one-shot publish has just succeeded
JustPublished == argv.command = "publish" /\ pc = "exited" /\ exitCode = 0 /\ plast.n > 0

\* the tarball the last successful publish stored (line 197)
LastStored == newTarballName(getSafePackageName(plast.name), plast.version, plast.stamp)

\* the tarballs of the package name in dir that decode for it
OwnDecoded(dir, name) ==
    {t \in Range(decodeAll(CHOOSE l \in Listings(dir) : TRUE, getSafePackageName(name))) :
        ~IsOfOtherPackage(t.file, name)}

\* C25: right after a successful publish of (name, v), when no tarball of
\* that package in the cache has a version greater than v, add resolves the
\* package to the tarball publish has just stored, with its timestamp,
\* however the directory is listed.
C25_PublishedIsLatest ==
    (/\ JustPublished
     /\ \A t \in OwnDecoded(cache, plast.name) :
           compareSemVer(t.version, parseSemVer(plast.version)) <= 0)
        => \A listing \in Listings(cache) :
              /\ resolveLatest(listing, plast.name).latest.file = LastStored
              /\ resolveLatest(listing, plast.name).latest.timestamp = JsInt(plast.stamp)

\* the same, with every file the code decodes for the package counted as a
\* tarball of the package
PublishedIsLatestOfDecoded ==
    (/\ JustPublished
     /\ \A t \in Range(decodeAll(CHOOSE l \in Listings(cache) : TRUE,
                                 getSafePackageName(plast.name))) :
           compareSemVer(t.version, parseSemVer(plast.version)) <= 0)
        => \A listing \in Listings(cache) :
              /\ resolveLatest(listing, plast.name).latest.file = LastStored
              /\ resolveLatest(listing, plast.name).latest.timestamp = JsInt(plast.stamp)

\* "pnpm add" has failed and add has ended the process (lines 329-331)
InstallFailed ==
    /\ argv.command = "add"
    /\ pc = "exited"
    /\ exitCode = 1
    /\ installs # <<>>

\* C26: when the installer has failed, the consumer manifest has no entry
\* for the package, whether it declared the package before add or not: a
\* declaration add removed is not restored.
C26_NotRestored ==
    InstallFailed => ~DepOf(consumer, argv.packageName).has

=============================================================================
